---- MODULE Spec2Model ----
(***************************************************************************)
(* Model of the carp repository's two Python programs:                     *)
(*   cli/my-test-agent/agent.py    the Agent class and its main()          *)
(*   scripts/test_upload_batch.py  the upload smoke-test harness           *)
(*                                                                         *)
(* A Python str is a sequence of chunks (a chunk is a word, a blank, a     *)
(* punctuation mark or an escape), so that concatenation, join, JSON       *)
(* parsing and JSON serialisation are computed and not assumed.            *)
(***************************************************************************)
EXTENDS Integers, Sequences, FiniteSets, TLC

VARIABLES
    \* ---- Agent object used through its API (agent.py:13-49)
    config,      \* the constructor's argument
    name,        \* self.name
    version,     \* self.version
    identity0,   \* history: <<name, version>> as __init__ left them
    history,     \* history: the calls made so far, with their outcomes
    \* ---- one run of agent.py's main() (agent.py:51-81)
    pc,          \* position of main
    argv,        \* sys.argv[1:]
    configFile,  \* is ./config.toml there
    stdin,       \* what input() will meet
    agent,       \* the Agent main constructs
    line,        \* main's local `line`
    stdout,      \* the print() calls so far
    exitStatus,  \* the interpreter's exit status once the run is over
    reads,       \* history: number of input() calls
    trace,       \* history: calls of process / handle_request with outcomes
    \* ---- one run of scripts/test_upload_batch.py
    hpc,         \* position of test_upload
    fixture,     \* content of /tmp/carp-test-upload/test-agent.md
    hout,        \* the harness's print() calls so far
    hexit,       \* the harness's exit status once the run is over
    child,       \* state of the launched executable
    childIn,     \* what was written to the child's stdin, in order
    pipe,        \* child output not yet read by communicate()
    emitted,     \* history: all output the child has produced
    captured,    \* output read by communicate() so far
    comm         \* position inside communicate()

agentVars   == <<config, name, version, identity0, history>>
mainVars    == <<pc, argv, configFile, stdin, agent, line, stdout, exitStatus, reads, trace>>
harnessVars == <<hpc, fixture, hout, hexit, child, childIn, pipe, emitted, captured, comm>>
vars        == <<agentVars, mainVars, harnessVars>>

----------------------------------------------------------------------------
(* Bounds of the model *)

MaxCalls == 2      \* API calls made on one Agent object
MaxArgs == 2       \* positional arguments of one run of main
MaxChildOut == 2   \* output chunks one child produces

----------------------------------------------------------------------------
(* Python values.  Every value is a record of one shape:                   *)
(*   k      the Python type name                                           *)
(*   s      the text of a str, the digits of an int, True/False of a bool  *)
(*   items  the elements of a list (key = <<>>) or the entries of a dict   *)

PyStr(s)    == [k |-> "str", s |-> s, items |-> <<>>]
PyInt(s)    == [k |-> "int", s |-> s, items |-> <<>>]
PyFloat(s)  == [k |-> "float", s |-> s, items |-> <<>>]
PyBool(b)   == [k |-> "bool", s |-> IF b THEN <<"True">> ELSE <<"False">>, items |-> <<>>]
PyNone      == [k |-> "NoneType", s |-> <<>>, items |-> <<>>]
Entry(key, val) == [key |-> key, val |-> val]
PyList(vals) == [k |-> "list", s |-> <<>>,
                 items |-> [i \in 1..Len(vals) |-> Entry(<<>>, vals[i])]]
PyDict(entries) == [k |-> "dict", s |-> <<>>, items |-> entries]

\* Outcome of a call: a returned value or a raised exception (exc = its class,
\* val = Str(str(e))).
Return(v)        == [k |-> "return", exc |-> "", val |-> v]
Raise(cls, msg)  == [k |-> "raise", exc |-> cls, val |-> PyStr(msg)]

\* The exception classes that occur, each with its base class.
BaseOf(cls) ==
    CASE cls = "JSONDecodeError"   -> "ValueError"
      [] cls = "ValueError"        -> "Exception"
      [] cls = "RuntimeError"      -> "Exception"
      [] cls = "AttributeError"    -> "Exception"
      [] cls = "LookupError"       -> "Exception"
      [] cls = "KeyError"          -> "LookupError"
      [] cls = "TypeError"         -> "Exception"
      [] cls = "EOFError"          -> "Exception"
      [] cls = "OSError"           -> "Exception"
      [] cls = "FileNotFoundError" -> "OSError"
      [] cls = "PermissionError"   -> "OSError"
      [] cls = "UnicodeDecodeError" -> "ValueError"
      [] cls = "Exception"         -> "BaseException"
      [] cls = "KeyboardInterrupt" -> "BaseException"
      [] OTHER                     -> ""

RECURSIVE IsInstance(_, _)
\* isinstance(e, cls) for an exception of class exc: what an except clause tests.
IsInstance(exc, cls) ==
    IF exc = cls THEN TRUE
    ELSE IF BaseOf(exc) = "" THEN FALSE
    ELSE IsInstance(BaseOf(exc), cls)

----------------------------------------------------------------------------
(* Python's str(), repr(), dict.get and str.join *)

Quote == "\""          \* the character "
EscQuote == "\\\""     \* the two characters \"
Newline == "\n"        \* the line feed character
EscNewline == "\\n"    \* the two characters \n

RECURSIVE Concat(_)
\* ''.join(parts)
Concat(parts) ==
    IF parts = <<>> THEN <<>> ELSE Head(parts) \o Concat(Tail(parts))

RECURSIVE Join(_, _)
\* sep.join(parts)
Join(sep, parts) ==
    IF parts = <<>> THEN <<>>
    ELSE IF Len(parts) = 1 THEN parts[1]
    ELSE parts[1] \o sep \o Join(sep, Tail(parts))

\* repr() of a str: quoted, the line feed escaped
ReprStr(s) ==
    <<"'">> \o [i \in 1..Len(s) |-> IF s[i] = Newline THEN EscNewline ELSE s[i]] \o <<"'">>

RECURSIVE PyRepr(_)
\* repr(v)
PyRepr(v) ==
    CASE v.k = "str"      -> ReprStr(v.s)
      [] v.k = "NoneType" -> <<"None">>
      [] v.k = "list"     ->
            <<"[">> \o Join(<<",", " ">>,
                            [i \in 1..Len(v.items) |-> PyRepr(v.items[i].val)]) \o <<"]">>
      [] v.k = "dict"     ->
            <<"{">> \o Join(<<",", " ">>,
                            [i \in 1..Len(v.items) |->
                                ReprStr(v.items[i].key) \o <<":", " ">>
                                    \o PyRepr(v.items[i].val)]) \o <<"}">>
      [] OTHER            -> v.s

\* str(v), which is also what an f-string's {v} inserts
PyStrOf(v) == IF v.k = "str" THEN v.s ELSE PyRepr(v)

RECURSIVE Lookup(_, _, _)
\* the value a dict's entries hold for key, or default
Lookup(entries, key, default) ==
    IF entries = <<>> THEN default
    ELSE IF Head(entries).key = key THEN Head(entries).val
    ELSE Lookup(Tail(entries), key, default)

\* d[key] = val on a dict's entries: a present key keeps its place
DictSet(entries, key, val) ==
    IF \E i \in 1..Len(entries) : entries[i].key = key
    THEN [i \in 1..Len(entries) |->
             IF entries[i].key = key THEN Entry(key, val) ELSE entries[i]]
    ELSE Append(entries, Entry(key, val))

\* Get as obj[key] would do it: a missing key raises KeyError
GetSubscript(obj, key, default) ==
    IF obj.k # "dict"
    THEN Raise("TypeError", <<"'", obj.k, "'", " ", "object", " ", "is", " ", "not", " ",
                              "subscriptable">>)
    ELSE IF \E i \in 1..Len(obj.items) : obj.items[i].key = key
         THEN Return(Lookup(obj.items, key, default))
    ELSE Raise("KeyError", <<"'">> \o key \o <<"'">>)

\* Get that answers the default for an object without the method
GetLenient(obj, key, default) ==
    IF obj.k = "dict" THEN Return(Lookup(obj.items, key, default)) ELSE Return(default)

\* obj.get(key, default): only a dict has the method
Get(obj, key, default) ==
    IF obj.k = "dict" THEN Return(Lookup(obj.items, key, default))
    ELSE Raise("AttributeError",
               <<"'", obj.k, "'", " ", "object", " ", "has", " ", "no", " ",
                 "attribute", " ", "'", "get", "'">>)

----------------------------------------------------------------------------
(* json.loads and json.dumps, over chunks *)

Whitespace == {" ", "\t"}
IntChunks == {"1", "5", "42"}
FloatChunks == {"1.5"}

NoParse == [ok |-> FALSE, val |-> PyNone, next |-> 0]
Parsed(v, n) == [ok |-> TRUE, val |-> v, next |-> n]

RECURSIVE SkipWs(_, _)
SkipWs(s, i) ==
    IF i <= Len(s) /\ s[i] \in Whitespace THEN SkipWs(s, i + 1) ELSE i

RECURSIVE ScanString(_, _, _)
\* the string literal whose opening quote is at i - 1; acc is its decoded text
ScanString(s, i, acc) ==
    IF i > Len(s) THEN NoParse
    ELSE IF s[i] = Quote THEN Parsed(PyStr(acc), i + 1)
    ELSE IF s[i] \in {Newline, "\t", "\\"} THEN NoParse
    ELSE IF s[i] = EscQuote THEN ScanString(s, i + 1, Append(acc, Quote))
    ELSE IF s[i] = EscNewline THEN ScanString(s, i + 1, Append(acc, Newline))
    ELSE ScanString(s, i + 1, Append(acc, s[i]))

RECURSIVE ScanOnce(_, _)
RECURSIVE ScanObject(_, _, _)
RECURSIVE ScanArray(_, _, _)

\* the JSON value that starts at i
ScanOnce(s, i) ==
    IF i > Len(s) THEN NoParse
    ELSE CASE s[i] = Quote -> ScanString(s, i + 1, <<>>)
           [] s[i] = "{" ->
                LET j == SkipWs(s, i + 1)
                IN  IF j <= Len(s) /\ s[j] = "}" THEN Parsed(PyDict(<<>>), j + 1)
                    ELSE ScanObject(s, j, <<>>)
           [] s[i] = "[" ->
                LET j == SkipWs(s, i + 1)
                IN  IF j <= Len(s) /\ s[j] = "]" THEN Parsed(PyList(<<>>), j + 1)
                    ELSE ScanArray(s, j, <<>>)
           [] s[i] = "null"  -> Parsed(PyNone, i + 1)
           [] s[i] = "true"  -> Parsed(PyBool(TRUE), i + 1)
           [] s[i] = "false" -> Parsed(PyBool(FALSE), i + 1)
           [] s[i] \in IntChunks -> Parsed(PyInt(<<s[i]>>), i + 1)
           [] s[i] \in FloatChunks -> Parsed(PyFloat(<<s[i]>>), i + 1)
           [] OTHER -> NoParse

\* the members of an object from the key at i on; acc holds the entries so far
ScanObject(s, i, acc) ==
    IF i > Len(s) \/ s[i] # Quote THEN NoParse
    ELSE LET key == ScanString(s, i + 1, <<>>)
         IN  IF ~key.ok THEN NoParse
             ELSE LET c == SkipWs(s, key.next)
                  IN  IF c > Len(s) \/ s[c] # ":" THEN NoParse
                      ELSE LET v == ScanOnce(s, SkipWs(s, c + 1))
                           IN  IF ~v.ok THEN NoParse
                               ELSE LET acc2 == DictSet(acc, key.val.s, v.val)
                                        e == SkipWs(s, v.next)
                                    IN  IF e > Len(s) THEN NoParse
                                        ELSE IF s[e] = "}" THEN Parsed(PyDict(acc2), e + 1)
                                        ELSE IF s[e] = ","
                                             THEN ScanObject(s, SkipWs(s, e + 1), acc2)
                                        ELSE NoParse

\* the elements of an array from the value at i on; acc holds the values so far
ScanArray(s, i, acc) ==
    LET v == ScanOnce(s, i)
    IN  IF ~v.ok THEN NoParse
        ELSE LET acc2 == Append(acc, v.val)
                 e == SkipWs(s, v.next)
             IN  IF e > Len(s) THEN NoParse
                 ELSE IF s[e] = "]" THEN Parsed(PyList(acc2), e + 1)
                 ELSE IF s[e] = "," THEN ScanArray(s, SkipWs(s, e + 1), acc2)
                 ELSE NoParse

\* json.loads(s): the value, or JSONDecodeError
json_loads(s) ==
    LET r == ScanOnce(s, SkipWs(s, 1))
    IN  IF ~r.ok THEN Raise("JSONDecodeError", <<"Expecting", " ", "value">>)
        ELSE IF SkipWs(s, r.next) # Len(s) + 1
             THEN Raise("JSONDecodeError", <<"Extra", " ", "data">>)
        ELSE Return(r.val)

\* a str as a JSON string literal
DumpStr(s) ==
    <<Quote>> \o [i \in 1..Len(s) |->
                    CASE s[i] = Quote   -> EscQuote
                      [] s[i] = Newline -> EscNewline
                      [] OTHER          -> s[i]] \o <<Quote>>

RECURSIVE json_dumps(_)
\* json.dumps(v) with the default separators
json_dumps(v) ==
    CASE v.k = "str"      -> DumpStr(v.s)
      [] v.k = "NoneType" -> <<"null">>
      [] v.k = "bool"     -> IF v = PyBool(TRUE) THEN <<"true">> ELSE <<"false">>
      [] v.k = "list"     ->
            <<"[">> \o Join(<<",", " ">>,
                            [i \in 1..Len(v.items) |-> json_dumps(v.items[i].val)]) \o <<"]">>
      [] v.k = "dict"     ->
            <<"{">> \o Join(<<",", " ">>,
                            [i \in 1..Len(v.items) |->
                                DumpStr(v.items[i].key) \o <<":", " ">>
                                    \o json_dumps(v.items[i].val)]) \o <<"}">>
      [] OTHER            -> v.s

----------------------------------------------------------------------------
(* class Agent *)

\* Agent.__init__: (self.name, self.version) for a constructor argument
\* (`config or {}`: None and the empty dict both give the defaults)
InitName(cfg) ==
    IF cfg.k = "dict" THEN Lookup(cfg.items, <<"name">>, PyStr(<<"Basic", " ", "Agent">>))
    ELSE PyStr(<<"Basic", " ", "Agent">>)

InitVersion(cfg) ==
    IF cfg.k = "dict" THEN Lookup(cfg.items, <<"version">>, PyStr(<<"0.1.0">>))
    ELSE PyStr(<<"0.1.0">>)

\* What a call of process can do.  "template" is the body the file ships: the
\* f-string.  The file is a template whose process is to be replaced ("TODO:
\* Implement your agent logic here"), so a call may also raise: the other
\* behaviours are the error classes a replacement raises.
ProcessBehaviours == {"template", "RuntimeError", "JSONDecodeError"}

\* Agent.process with self.name = nm
process(nm, input_data, beh) ==
    IF beh = "template"
    THEN Return(PyStr(<<"Hello", " ", "from", " ">> \o PyStrOf(nm)
                      \o <<"!", " ", "You", " ", "said", ":", " ">> \o PyStrOf(input_data)))
    ELSE Raise(beh, <<"processing", " ", "failed">>)

AgentField(nm, ver) == PyDict(<<Entry(<<"name">>, nm), Entry(<<"version">>, ver)>>)

Success(result, nm, ver) ==
    PyDict(<<Entry(<<"success">>, PyBool(TRUE)),
             Entry(<<"result">>, result),
             Entry(<<"agent">>, AgentField(nm, ver))>>)

\* Failure with the default identity in place of the agent's own
FailureDefaultIdentity(error, nm, ver) ==
    PyDict(<<Entry(<<"success">>, PyBool(FALSE)),
             Entry(<<"error">>, error),
             Entry(<<"agent">>, AgentField(PyStr(<<"Basic", " ", "Agent">>),
                                           PyStr(<<"0.1.0">>)))>>)

Failure(error, nm, ver) ==
    PyDict(<<Entry(<<"success">>, PyBool(FALSE)),
             Entry(<<"error">>, error),
             Entry(<<"agent">>, AgentField(nm, ver))>>)

\* HandlerCatches as `except ValueError` would do it
HandlerCatchesValueError(exc) == IsInstance(exc, "ValueError")

\* `except Exception` of handle_request: does the clause catch class exc
HandlerCatches(exc) == IsInstance(exc, "Exception")

\* Agent.handle_request with self.name = nm, self.version = ver
handle_request(nm, ver, request, beh) ==
    LET got == Get(request, <<"input">>, PyStr(<<>>))
        res == IF got.k = "raise" THEN got ELSE process(nm, got.val, beh)
    IN  IF res.k = "return" THEN Return(Success(res.val, nm, ver))
        ELSE IF HandlerCatches(res.exc) THEN Return(Failure(res.val, nm, ver))
        ELSE res

----------------------------------------------------------------------------
(* Values the specifications draw from *)

S(w) == PyStr(<<w>>)
Empty == PyStr(<<>>)

\* constructor arguments: none, the empty dict, and dicts with one or both keys
Configs ==
    { PyNone,
      PyDict(<<>>),
      PyDict(<<Entry(<<"name">>, S("carp-bot"))>>),
      PyDict(<<Entry(<<"version">>, S("2.0"))>>),
      PyDict(<<Entry(<<"name">>, S("carp-bot")), Entry(<<"version">>, S("2.0"))>>) }

\* arguments of process
Inputs == { Empty, S("ping"), PyStr(<<"a", Newline, "b">>) }

\* arguments of handle_request: dicts with and without input, and non-dicts
Requests ==
    { PyDict(<<Entry(<<"input">>, S("ping"))>>),
      PyDict(<<Entry(<<"input">>, Empty)>>),
      PyDict(<<Entry(<<"input">>, S("ping")), Entry(<<"x">>, PyInt(<<"1">>))>>),
      PyDict(<<Entry(<<"input">>, PyInt(<<"5">>))>>),
      PyDict(<<Entry(<<"input">>, PyNone)>>),
      PyDict(<<>>),
      PyDict(<<Entry(<<"x">>, PyInt(<<"1">>))>>),
      PyDict(<<Entry(<<"mode">>, S("fast")), Entry(<<"inputs">>, PyList(<<S("ping")>>))>>),
      PyInt(<<"5">>),
      S("ping"),
      PyList(<<PyInt(<<"1">>)>>),
      PyNone,
      PyBool(TRUE) }

IdleAgent   == /\ config = PyNone /\ name = Empty /\ version = Empty
               /\ identity0 = <<Empty, Empty>> /\ history = <<>>
IdleMain    == /\ pc = "idle" /\ argv = <<>> /\ configFile = "absent" /\ stdin = <<>>
               /\ agent = <<Empty, Empty>> /\ line = <<>> /\ stdout = <<>>
               /\ exitStatus = -1 /\ reads = 0 /\ trace = <<>>
IdleHarness == /\ hpc = "idle" /\ fixture = <<>> /\ hout = <<>> /\ hexit = -1
               /\ child = "none" /\ childIn = <<>> /\ pipe = <<>> /\ emitted = <<>>
               /\ captured = <<>> /\ comm = "none"

----------------------------------------------------------------------------
(* SpecAgent: an Agent object and the calls made on it *)

Call(op, arg, beh, out) == [op |-> op, arg |-> arg, beh |-> beh, out |-> out]

\* the state __init__ leaves
InitAgent ==
    /\ config \in Configs
    /\ name = InitName(config)
    /\ version = InitVersion(config)
    /\ identity0 = <<name, version>>
    /\ history = <<>>
    /\ IdleMain
    /\ IdleHarness

\* agent.process(input_data)
CallProcess ==
    /\ Len(history) < MaxCalls
    /\ \E input_data \in Inputs, beh \in ProcessBehaviours :
          history' = Append(history,
                            Call("process", input_data, beh, process(name, input_data, beh)))
    /\ UNCHANGED <<config, name, version, identity0, mainVars, harnessVars>>

\* agent.handle_request(request)
CallHandleRequest ==
    /\ Len(history) < MaxCalls
    /\ \E request \in Requests, beh \in ProcessBehaviours :
          history' = Append(history,
                            Call("handle_request", request, beh,
                                 handle_request(name, version, request, beh)))
    /\ UNCHANGED <<config, name, version, identity0, mainVars, harnessVars>>

NextAgent == CallProcess \/ CallHandleRequest

SpecAgent == InitAgent /\ [][NextAgent]_vars

----------------------------------------------------------------------------
(* SpecMain: one run of agent.py's main() *)

\* one positional argument
Args == { <<"hello">>, <<"world">>, <<"two", " ", "words">> }

RECURSIVE SeqsUpTo(_, _)
\* the sequences over S of length at most n
SeqsUpTo(X, n) ==
    IF n = 0 THEN { <<>> }
    ELSE LET shorter == SeqsUpTo(X, n - 1)
         IN  shorter \cup { Append(q, x) : q \in shorter, x \in X }

\* {"input": "ping"}
LinePing == <<"{", Quote, "input", Quote, ":", " ", Quote, "ping", Quote, "}">>

\* the lines standard input may hold (without the line's end, as input() returns it)
StdinLines ==
    { LinePing,
      <<" ">> \o LinePing \o <<" ">>,
      <<"{", "}">>,
      <<"{", Quote, "x", Quote, ":", " ", "1", "}">>,
      <<"{", Quote, "input", Quote, ":", " ", Quote, "a", EscNewline, "b", Quote, "}">>,
      <<"{", Quote, "input", Quote, ":", " ", Quote, "say", " ", EscQuote, "hi", EscQuote, Quote, "}">>,
      <<"{", Quote, "input", Quote, ":", " ", "5", "}">>,
      <<"{", Quote, "input", Quote, ":", " ", "null", ",", " ",
             Quote, "input", Quote, ":", " ", Quote, "pong", Quote, "}">>,
      <<"42">>,
      <<"1.5">>,
      <<Quote, "ping", Quote>>,
      <<"[", "1", ",", " ", "null", "]">>,
      <<"null">>,
      <<"true">>,
      <<"not", " ", "json">>,
      <<>>,
      <<"{", Quote, "input", Quote, ":", " ", Quote, "ping", Quote>>,
      LinePing \o <<" ", "x">>,
      <<"{", "input", ":", " ", "ping", "}">> }

\* what input() meets: a line, end of input, or the user's interrupt
StdinStates ==
    { [k |-> "line", text |-> l] : l \in StdinLines }
        \cup { [k |-> "eof", text |-> <<>>], [k |-> "interrupt", text |-> <<>>] }

\* input(): the line, EOFError at end of input, KeyboardInterrupt on Ctrl-C
input(in) ==
    CASE in.k = "line"      -> Return(PyStr(in.text))
      [] in.k = "eof"       -> Raise("EOFError", <<"EOF", " ", "when", " ", "reading", " ", "a", " ", "line">>)
      [] in.k = "interrupt" -> Raise("KeyboardInterrupt", <<>>)

\* MainHandler without the JSONDecodeError clause
MainHandlerNoFallback(exc) ==
    IF IsInstance(exc, "EOFError") \/ IsInstance(exc, "KeyboardInterrupt") THEN "pass"
    ELSE "crash"

\* MainHandler whose first clause names EOFError alone
MainHandlerEofOnly(exc) ==
    IF IsInstance(exc, "EOFError") THEN "pass"
    ELSE IF IsInstance(exc, "JSONDecodeError") THEN "fallback"
    ELSE "crash"

\* the except clauses of main's try, in order: which one takes an exception
MainHandler(exc) ==
    IF IsInstance(exc, "EOFError") \/ IsInstance(exc, "KeyboardInterrupt") THEN "pass"
    ELSE IF IsInstance(exc, "JSONDecodeError") THEN "fallback"
    ELSE "crash"

\* ArgvInput as ''.join would do it
ArgvInputNoBlank(args) == Concat(args)

\* ' '.join(sys.argv[1:])
ArgvInput(args) == Join(<<" ">>, args)

InitMain ==
    /\ pc = "start"
    /\ argv \in SeqsUpTo(Args, MaxArgs)
    /\ configFile \in {"absent", "present"}
    /\ stdin \in StdinStates
    /\ agent = <<Empty, Empty>>
    /\ line = <<>>
    /\ stdout = <<>>
    /\ exitStatus = -1
    /\ reads = 0
    /\ trace = <<>>
    /\ IdleAgent
    /\ IdleHarness

\* the run ends normally / with an uncaught exception (traceback, status 1)
Finish == pc' = "done" /\ exitStatus' = 0
Crash  == pc' = "crashed" /\ exitStatus' = 1

\* lines 54-62: config stays {} whether config.toml opens (nothing is parsed) or
\* is not found (FileNotFoundError is passed over), and the Agent is constructed
\* from it.  A config.toml that cannot be opened for another reason is outside the
\* model.
MainStart ==
    /\ pc = "start"
    /\ agent' = <<InitName(PyDict(<<>>)), InitVersion(PyDict(<<>>))>>
    /\ pc' = "dispatch"
    /\ UNCHANGED <<argv, configFile, stdin, line, stdout, exitStatus, reads, trace,
                   agentVars, harnessVars>>

\* lines 64-68: command line input
MainArgv ==
    /\ pc = "dispatch"
    /\ Len(argv) > 0
    /\ \E beh \in ProcessBehaviours :
          LET input_data == PyStr(ArgvInput(argv))
              result == process(agent[1], input_data, beh)
          IN  /\ trace' = Append(trace, Call("process", input_data, beh, result))
              /\ IF result.k = "return"
                 THEN stdout' = Append(stdout, PyStrOf(result.val)) /\ Finish
                 ELSE stdout' = stdout /\ Crash
    /\ UNCHANGED <<argv, configFile, stdin, agent, line, reads, agentVars, harnessVars>>

\* line 72, with the except clauses that take what input() raises
MainRead ==
    /\ pc = "dispatch"
    /\ Len(argv) = 0
    /\ reads' = reads + 1
    /\ LET got == input(stdin)
       IN  IF got.k = "return"
           THEN /\ line' = got.val.s
                /\ pc' = "parse"
                /\ exitStatus' = exitStatus
           ELSE /\ line' = line
                /\ IF MainHandler(got.exc) = "pass" THEN Finish ELSE Crash
    /\ UNCHANGED <<argv, configFile, stdin, agent, stdout, trace, agentVars, harnessVars>>

\* lines 78-81: the JSONDecodeError clause, given the calls logged before it
Fallback(log) ==
    \E beh \in ProcessBehaviours :
       LET result == process(agent[1], PyStr(line), beh)
       IN  /\ trace' = Append(log, Call("process", PyStr(line), beh, result))
           /\ IF result.k = "return"
              THEN stdout' = Append(stdout, PyStrOf(result.val)) /\ Finish
              ELSE stdout' = stdout /\ Crash

\* the calls handle_request(request) adds to the log: itself, and process when
\* the request has a get method
HandleLog(request, beh, response) ==
    LET got == Get(request, <<"input">>, Empty)
    IN  <<Call("handle_request", request, beh, response)>>
            \o (IF got.k = "return"
                THEN <<Call("process", got.val, beh, process(agent[1], got.val, beh))>>
                ELSE <<>>)

\* lines 73-75: the line parses, the request is handled and the response printed
MainJson ==
    /\ pc = "parse"
    /\ json_loads(line).k = "return"
    /\ \E beh \in ProcessBehaviours :
          LET request == json_loads(line).val
              response == handle_request(agent[1], agent[2], request, beh)
              log == trace \o HandleLog(request, beh, response)
          IN  IF response.k = "return"
              THEN /\ trace' = log
                   /\ stdout' = Append(stdout, json_dumps(response.val))
                   /\ Finish
              ELSE CASE MainHandler(response.exc) = "pass" ->
                            trace' = log /\ stdout' = stdout /\ Finish
                     [] MainHandler(response.exc) = "fallback" -> Fallback(log)
                     [] OTHER -> trace' = log /\ stdout' = stdout /\ Crash
    /\ UNCHANGED <<argv, configFile, stdin, agent, line, reads, agentVars, harnessVars>>

\* lines 73, 78-81: json.loads raises and the except clauses take it
MainNotJson ==
    /\ pc = "parse"
    /\ json_loads(line).k = "raise"
    /\ CASE MainHandler(json_loads(line).exc) = "pass" ->
                trace' = trace /\ stdout' = stdout /\ Finish
         [] MainHandler(json_loads(line).exc) = "fallback" -> Fallback(trace)
         [] OTHER -> trace' = trace /\ stdout' = stdout /\ Crash
    /\ UNCHANGED <<argv, configFile, stdin, agent, line, reads, agentVars, harnessVars>>

NextMain == MainStart \/ MainArgv \/ MainRead \/ MainJson \/ MainNotJson

SpecMain == InitMain /\ [][NextMain]_vars

----------------------------------------------------------------------------
(* SpecHarness: one run of scripts/test_upload_batch.py *)

\* test_dir, agent_content, cli_path, cmd
test_dir == "/tmp/carp-test-upload"

agent_content ==
    <<"---", Newline,
      "name: test-batch-upload", Newline,
      "description: Test agent for batch upload debugging", Newline,
      "version: \"1.0.0\"", Newline,
      "tags: [\"test\", \"debug\", \"batch\"]", Newline,
      "---", Newline,
      Newline,
      "# Test Batch Upload Agent", Newline,
      Newline,
      "This is a test agent to debug the batch upload functionality.">>

cli_path == "/Users/andreasbigger/carp/cli/target/release/carp"

cmd == <<cli_path, "upload", "--directory", test_dir,
         "--api-key", "carp_test_abcd_efgh_ijkl", "--verbose">>

\* the texts the harness prints
CreatedLine == <<"Created test agent file">>
RunningLine == <<"Running command: ">> \o Join(<<" ">>, [i \in 1..Len(cmd) |-> <<cmd[i]>>])
Separator   == <<"==================================================">>
OutputHead  == <<"CLI Output:">>
ExitLine(code) == <<"Exit code: ", ToString(code)>>
ErrorLine(msg) == <<"Error running CLI: ">> \o msg

\* the scripted input
ScriptedInput == <<"2", Newline>>

\* what Popen can do: start the child, or raise
LaunchOutcomes == {"ok", "FileNotFoundError", "PermissionError"}

\* str(e) of the error Popen raises
LaunchMessage(exc) ==
    IF exc = "FileNotFoundError"
    THEN <<"[Errno 2] No such file or directory: ", "'", cli_path, "'">>
    ELSE <<"[Errno 13] Permission denied: ", "'", cli_path, "'">>

\* output the child may produce; BadBytes is a byte sequence that is not valid text
BadBytes == "\\xff"
OutChunks == {"Select agents to upload:", "Uploaded", BadBytes}
ExitCodes == {0, 1, 2}

\* HarnessCatches as `except ValueError` would do it
HarnessCatchesValueError(exc) == IsInstance(exc, "ValueError")

\* `except Exception` of test_upload: does the clause catch class exc
HarnessCatches(exc) == IsInstance(exc, "Exception")

\* CommunicateReturns that does not wait for the child
CommunicateReturnsEarly == comm = "drain"

\* communicate() returns once the input is sent and closed, the child's output has
\* reached end of file and the child has been waited for
CommunicateReturns == comm = "drain" /\ child.st = "exited" /\ pipe = <<>>

InitHarness ==
    /\ hpc = "prepare"
    /\ fixture \in { <<>>, <<"stale">> }
    /\ hout = <<>>
    /\ hexit = -1
    /\ child = [st |-> "unlaunched", code |-> -1, err |-> ""]
    /\ childIn = [writes |-> <<>>, closed |-> FALSE]
    /\ pipe = <<>>
    /\ emitted = <<>>
    /\ captured = <<>>
    /\ comm = "none"
    /\ IdleAgent
    /\ IdleMain

\* lines 9-26: the scratch directory and the fixture file; an OSError of makedirs
\* or open is not caught
HPrepare ==
    /\ hpc = "prepare"
    /\ \E ok \in BOOLEAN :
          IF ok
          THEN /\ fixture' = agent_content
               /\ hout' = Append(hout, CreatedLine)
               /\ hpc' = "announce"
               /\ hexit' = hexit
          ELSE /\ hpc' = "crashed"
               /\ hexit' = 1
               /\ UNCHANGED <<fixture, hout>>
    /\ UNCHANGED <<child, childIn, pipe, emitted, captured, comm, agentVars, mainVars>>

\* lines 29-38
HAnnounce ==
    /\ hpc = "announce"
    /\ hout' = hout \o <<RunningLine, Separator>>
    /\ hpc' = "launch"
    /\ UNCHANGED <<fixture, hexit, child, childIn, pipe, emitted, captured, comm,
                   agentVars, mainVars>>

\* lines 43-50, with the except clause (60-61) when Popen raises
HLaunch ==
    /\ hpc = "launch"
    /\ \E outcome \in LaunchOutcomes :
          IF outcome = "ok"
          THEN /\ child' = [child EXCEPT !.st = "running"]
               /\ comm' = "write"
               /\ hpc' = "communicate"
               /\ UNCHANGED <<hout, hexit>>
          ELSE /\ child' = [child EXCEPT !.st = "failed", !.err = outcome]
               /\ comm' = comm
               /\ IF HarnessCatches(outcome)
                  THEN /\ hout' = Append(hout, ErrorLine(LaunchMessage(outcome)))
                       /\ hpc' = "done"
                       /\ hexit' = 0
                  ELSE /\ hout' = hout
                       /\ hpc' = "crashed"
                       /\ hexit' = 1
    /\ UNCHANGED <<fixture, childIn, pipe, emitted, captured, agentVars, mainVars>>

\* line 53, communicate(input="2\n"): the input is written ...
CommWrite ==
    /\ hpc = "communicate"
    /\ comm = "write"
    /\ childIn' = [childIn EXCEPT !.writes = Append(@, ScriptedInput)]
    /\ comm' = "close"
    /\ UNCHANGED <<hpc, fixture, hout, hexit, child, pipe, emitted, captured,
                   agentVars, mainVars>>

\* ... then the child's stdin is closed ...
CommClose ==
    /\ hpc = "communicate"
    /\ comm = "close"
    /\ childIn' = [childIn EXCEPT !.closed = TRUE]
    /\ comm' = "drain"
    /\ UNCHANGED <<hpc, fixture, hout, hexit, child, pipe, emitted, captured,
                   agentVars, mainVars>>

\* ... while the combined stdout/stderr is read as it comes ...
CommRead ==
    /\ hpc = "communicate"
    /\ pipe # <<>>
    /\ captured' = Append(captured, Head(pipe))
    /\ pipe' = Tail(pipe)
    /\ UNCHANGED <<hpc, fixture, hout, hexit, child, childIn, emitted, comm,
                   agentVars, mainVars>>

\* ... and communicate returns the decoded output (text=True); bytes that do not
\* decode raise UnicodeDecodeError, which the except clause (60-61) takes
CommFinish ==
    /\ hpc = "communicate"
    /\ CommunicateReturns
    /\ comm' = "done"
    /\ IF \E i \in 1..Len(captured) : captured[i] = BadBytes
       THEN IF HarnessCatches("UnicodeDecodeError")
            THEN /\ hout' = Append(hout, ErrorLine(<<"'utf-8' codec can't decode byte 0xff">>))
                 /\ hpc' = "done"
                 /\ hexit' = 0
            ELSE /\ hout' = hout
                 /\ hpc' = "crashed"
                 /\ hexit' = 1
       ELSE /\ hpc' = "report"
            /\ UNCHANGED <<hout, hexit>>
    /\ UNCHANGED <<fixture, child, childIn, pipe, emitted, captured, agentVars, mainVars>>

\* lines 55-58
HReport ==
    /\ hpc = "report"
    /\ hout' = hout \o <<OutputHead, captured, Separator, ExitLine(child.code)>>
    /\ hpc' = "done"
    /\ hexit' = 0
    /\ UNCHANGED <<fixture, child, childIn, pipe, emitted, captured, comm,
                   agentVars, mainVars>>

\* the external executable: it writes output, ...
ChildEmit ==
    /\ child.st = "running"
    /\ Len(emitted) < MaxChildOut
    /\ \E c \in OutChunks :
          /\ pipe' = Append(pipe, c)
          /\ emitted' = Append(emitted, c)
    /\ UNCHANGED <<hpc, fixture, hout, hexit, child, childIn, captured, comm,
                   agentVars, mainVars>>

\* ... exits with a status, ...
ChildExit ==
    /\ child.st = "running"
    /\ \E code \in ExitCodes : child' = [child EXCEPT !.st = "exited", !.code = code]
    /\ UNCHANGED <<hpc, fixture, hout, hexit, childIn, pipe, emitted, captured, comm,
                   agentVars, mainVars>>

\* ... or blocks for good
ChildHang ==
    /\ child.st = "running"
    /\ child' = [child EXCEPT !.st = "hung"]
    /\ UNCHANGED <<hpc, fixture, hout, hexit, childIn, pipe, emitted, captured, comm,
                   agentVars, mainVars>>

NextHarness ==
    \/ HPrepare \/ HAnnounce \/ HLaunch
    \/ CommWrite \/ CommClose \/ CommRead \/ CommFinish
    \/ HReport
    \/ ChildEmit \/ ChildExit \/ ChildHang

SpecHarness == InitHarness /\ [][NextHarness]_vars

----------------------------------------------------------------------------
(* Vocabulary of the properties *)

\* d[key] of a dict value, PyNone when the key is missing
Field(d, key) == Lookup(d.items, <<key>>, PyNone)

\* list(d.keys())
Keys(d) == [i \in 1..Len(d.items) |-> d.items[i].key]

HasKey(d, key) == d.k = "dict" /\ \E i \in 1..Len(d.items) : d.items[i].key = <<key>>

\* the agent field of an envelope names nm and ver
CarriesIdentity(v, nm, ver) ==
    /\ Field(v, "agent").k = "dict"
    /\ Keys(Field(v, "agent")) = << <<"name">>, <<"version">> >>
    /\ Field(Field(v, "agent"), "name") = nm
    /\ Field(Field(v, "agent"), "version") = ver

\* the Success variant: {success: true, result: str, agent: ...}
IsSuccess(v) ==
    /\ v.k = "dict"
    /\ Keys(v) = << <<"success">>, <<"result">>, <<"agent">> >>
    /\ Field(v, "success") = PyBool(TRUE)
    /\ Field(v, "result").k = "str"

\* the Failure variant: {success: false, error: str, agent: ...}
IsFailure(v) ==
    /\ v.k = "dict"
    /\ Keys(v) = << <<"success">>, <<"error">>, <<"agent">> >>
    /\ Field(v, "success") = PyBool(FALSE)
    /\ Field(v, "error").k = "str"

\* number of lines a print() of text writes
PrintedLines(text) == 1 + Cardinality({i \in 1..Len(text) : text[i] = Newline})

\* "Hello from Basic Agent! You said: "
HelloBasicAgent ==
    <<"Hello", " ", "from", " ", "Basic", " ", "Agent", "!", " ",
      "You", " ", "said", ":", " ">>

DefaultName == PyStr(<<"Basic", " ", "Agent">>)
DefaultVersion == PyStr(<<"0.1.0">>)

\* the entries of the history / trace that are calls of op
CallsOf(log, op) == {i \in 1..Len(log) : log[i].op = op}

----------------------------------------------------------------------------
(* Properties of the Agent object (SpecAgent) *)

\* C1: handle_request never propagates a failure.  For every request value and
\* whether process returns a string or raises an error, handle_request returns an
\* envelope and no exception escapes; when process raises, the envelope is the
\* Failure variant, success = false, error = the text of the raised error.
C1_HandleRequestNeverPropagates ==
    \A i \in CallsOf(history, "handle_request") :
        LET c == history[i]
        IN  /\ c.out.k = "return"
            /\ IsSuccess(c.out.val) \/ IsFailure(c.out.val)
            /\ (c.arg.k = "dict" /\ c.beh # "template") =>
                  /\ IsFailure(c.out.val)
                  /\ Field(c.out.val, "error") = PyStr(<<"processing", " ", "failed">>)

\* C1 witness: a call in which process raised RuntimeError and a Failure envelope
\* came back
C1_Witness ==
    \E i \in CallsOf(history, "handle_request") :
        /\ history[i].arg = PyDict(<<Entry(<<"input">>, S("ping"))>>)
        /\ history[i].beh = "RuntimeError"
        /\ history[i].out.k = "return"
        /\ IsFailure(history[i].out.val)

\* C2: the identity (name, version) is set at construction from the configuration
\* keys name and version, ("Basic Agent", "0.1.0") without them, no call changes it,
\* and every envelope handle_request returns, Success or Failure, carries exactly it.
C2_IdentityFixedAndCarried ==
    /\ identity0[1] = (IF HasKey(config, "name") THEN Field(config, "name") ELSE DefaultName)
    /\ identity0[2] = (IF HasKey(config, "version") THEN Field(config, "version")
                       ELSE DefaultVersion)
    /\ <<name, version>> = identity0
    /\ \A i \in CallsOf(history, "handle_request") :
          history[i].out.k = "return" =>
              CarriesIdentity(history[i].out.val, identity0[1], identity0[2])

\* C2 witness: an agent configured with its own name and version has returned a
\* Success and then a Failure envelope
C2_Witness ==
    /\ HasKey(config, "name") /\ HasKey(config, "version")
    /\ Len(history) = 2
    /\ history[1].op = "handle_request" /\ IsSuccess(history[1].out.val)
    /\ history[2].op = "handle_request" /\ IsFailure(history[2].out.val)

\* C7: a request object without an input field is handled as if its input were the
\* empty string: the envelope is the Success envelope of process(""), whatever other
\* fields the request carries (when process("") raises, the Failure envelope of that
\* error).
C7_MissingInputIsEmpty ==
    \A i \in CallsOf(history, "handle_request") :
        LET c == history[i]
            p == process(name, Empty, c.beh)
        IN  (c.arg.k = "dict" /\ ~HasKey(c.arg, "input")) =>
               /\ c.out.k = "return"
               /\ p.k = "return" =>
                     /\ IsSuccess(c.out.val)
                     /\ Field(c.out.val, "result") = p.val
                     /\ Field(c.out.val, "result").s =
                           <<"Hello", " ", "from", " ">> \o identity0[1].s
                               \o <<"!", " ", "You", " ", "said", ":", " ">>
               /\ p.k = "raise" =>
                     /\ IsFailure(c.out.val)
                     /\ Field(c.out.val, "error") = p.val

\* C7 witness: a request with other fields and no input got a Success envelope
C7_Witness ==
    \E i \in CallsOf(history, "handle_request") :
        /\ history[i].arg.k = "dict"
        /\ ~HasKey(history[i].arg, "input")
        /\ Len(history[i].arg.items) = 2
        /\ IsSuccess(history[i].out.val)

----------------------------------------------------------------------------
(* Properties of a run of main (SpecMain) *)

Over == pc \in {"done", "crashed"}

\* a call of process in this run raised
ProcessRaised == \E i \in CallsOf(trace, "process") : trace[i].out.k = "raise"

\* the run printed one thing, and it is one line
OneLinePrinted == Len(stdout) = 1 /\ PrintedLines(stdout[1]) = 1

\* C3 as claimed: in every invocation mode, an error process raises is caught and
\* turned into a Failure envelope, and the run does not crash.
C3_ProcessingErrorNeverCrashes ==
    (Over /\ ProcessRaised) =>
        /\ pc = "done"
        /\ exitStatus = 0
        /\ Len(stdout) = 1
        /\ json_loads(stdout[1]).k = "return"
        /\ IsFailure(json_loads(stdout[1]).val)

\* C4: in stdin mode, once a line has been read, the output is chosen by the parse
\* outcome.  A line that parses as JSON goes through handle_request and the envelope
\* is printed as exactly one line of JSON.  A line that does not parse is passed
\* whole to process, handle_request is not called, and the plain string result is
\* the one line printed; nothing printed for it is a Failure envelope.
C4_StdinOutputByParseOutcome ==
    (Over /\ stdin.k = "line" /\ reads = 1) =>
        /\ line = stdin.text
        /\ json_loads(line).k = "return" =>
              /\ CallsOf(trace, "handle_request") = {1}
              /\ trace[1].arg = json_loads(line).val
              /\ trace[1].out.k = "return"
              /\ OneLinePrinted
              /\ json_loads(stdout[1]) = trace[1].out
              /\ IsSuccess(trace[1].out.val) \/ IsFailure(trace[1].out.val)
        /\ json_loads(line).k = "raise" =>
              /\ Len(trace) = 1
              /\ trace[1].op = "process"
              /\ trace[1].arg = PyStr(line)
              /\ trace[1].out.k = "return" =>
                    /\ OneLinePrinted
                    /\ stdout[1] = trace[1].out.val.s
              /\ \A i \in 1..Len(stdout) :
                    ~(json_loads(stdout[i]).k = "return" /\ IsFailure(json_loads(stdout[i]).val))
        \* Scenario C
        /\ (line = LinePing /\ trace[2].beh = "template") =>
              stdout = << <<"{", Quote, "success", Quote, ":", " ", "true", ",", " ",
                            Quote, "result", Quote, ":", " ", Quote>>
                          \o HelloBasicAgent \o <<"ping", Quote, ",", " ",
                            Quote, "agent", Quote, ":", " ",
                            "{", Quote, "name", Quote, ":", " ",
                                 Quote, "Basic", " ", "Agent", Quote, ",", " ",
                                 Quote, "version", Quote, ":", " ", Quote, "0.1.0", Quote,
                            "}", "}">> >>
        \* Scenario D
        /\ (line = <<"not", " ", "json">> /\ trace[1].beh = "template") =>
              stdout = << HelloBasicAgent \o <<"not", " ", "json">> >>

\* C4 witness: the line "not json" was read and answered in plain text
C4_Witness ==
    /\ pc = "done"
    /\ reads = 1
    /\ line = <<"not", " ", "json">>
    /\ stdout = << HelloBasicAgent \o <<"not", " ", "json">> >>

\* C5: in stdin mode, at end of input or on the user's interrupt of the read, main
\* prints nothing, calls neither process nor handle_request, and ends with status 0.
C5_SilentOnEofOrInterrupt ==
    (Len(argv) = 0 /\ stdin.k \in {"eof", "interrupt"} /\ reads >= 1) =>
        /\ pc = "done"
        /\ exitStatus = 0
        /\ stdout = <<>>
        /\ trace = <<>>

\* C5 witness: the read met the user's interrupt and the run is over
C5_Witness ==
    /\ Len(argv) = 0 /\ stdin.k = "interrupt" /\ reads = 1 /\ pc = "done"

\* C6: a run reads standard input at most once.  With positional arguments it never
\* reads, calls process on the arguments joined by single blanks and prints the
\* plain string result (["hello", "world"] prints "Hello from Basic Agent! You said:
\* hello world"); without arguments it reads exactly once.
C6_AtMostOneRead ==
    /\ reads <= 1
    /\ Len(argv) > 0 =>
          /\ reads = 0
          /\ Over =>
                /\ Len(trace) = 1
                /\ trace[1].op = "process"
                /\ trace[1].out.k = "return" =>
                      /\ pc = "done"
                      /\ stdout = << trace[1].out.val.s >>
                /\ (argv = << <<"hello">>, <<"world">> >> /\ trace[1].beh = "template") =>
                      stdout = << HelloBasicAgent \o <<"hello", " ", "world">> >>
                /\ (argv = << <<"two", " ", "words">>, <<"hello">> >>) =>
                      trace[1].arg = PyStr(<<"two", " ", "words", " ", "hello">>)
    /\ (Len(argv) = 0 /\ Over) => reads = 1

\* C6 witness: the run with arguments hello world is over, having printed its line
C6_Witness ==
    /\ argv = << <<"hello">>, <<"world">> >>
    /\ pc = "done"
    /\ reads = 0
    /\ stdout = << HelloBasicAgent \o <<"hello", " ", "world">> >>

\* C10: a stdin line that is valid JSON but not an object is not handled as plain
\* text and does not crash the run: handle_request answers a Failure envelope with
\* the agent identity, and main prints it as exactly one line of JSON.
C10_NonObjectJsonGetsFailure ==
    (Over /\ reads = 1 /\ stdin.k = "line" /\ json_loads(stdin.text).k = "return"
          /\ json_loads(stdin.text).val.k # "dict") =>
        /\ pc = "done"
        /\ exitStatus = 0
        /\ CallsOf(trace, "process") = {}
        /\ CallsOf(trace, "handle_request") = {1}
        /\ OneLinePrinted
        /\ json_loads(stdout[1]).k = "return"
        /\ IsFailure(json_loads(stdout[1]).val)
        /\ CarriesIdentity(json_loads(stdout[1]).val, DefaultName, DefaultVersion)
        /\ Field(json_loads(stdout[1]).val, "error").s =
              <<"'", json_loads(stdin.text).val.k, "'", " ", "object", " ", "has", " ",
                "no", " ", "attribute", " ", "'", "get", "'">>

\* C10 witness: the line 42 was answered with a Failure envelope
C10_Witness ==
    /\ pc = "done"
    /\ line = <<"42">>
    /\ Len(stdout) = 1
    /\ IsFailure(json_loads(stdout[1]).val)

----------------------------------------------------------------------------
(* Properties of a run of the harness (SpecHarness) *)

\* the places of text among the harness's prints
Places(text) == {i \in 1..Len(hout) : hout[i] = text}

\* an exit status has been reported
ExitReported == \E i \in 1..Len(hout) : \E code \in ExitCodes : hout[i] = ExitLine(code)

\* C8: when launching the executable fails, the failure is caught, an error message
\* is printed and the run ends with status 0; the fixture file is already written,
\* nothing was sent to a child, and neither output nor an exit code is reported.
C8_LaunchFailureIsCaught ==
    child.st = "failed" =>
        /\ hpc = "done"
        /\ hexit = 0
        /\ hout[Len(hout)] = ErrorLine(LaunchMessage(child.err))
        /\ fixture = agent_content
        /\ childIn.writes = <<>> /\ ~childIn.closed
        /\ Places(OutputHead) = {}
        /\ ~ExitReported
        /\ captured = <<>>

\* C8 witness: Popen raised FileNotFoundError and the run is over
C8_Witness ==
    /\ child.st = "failed" /\ child.err = "FileNotFoundError"
    /\ hpc = "done"
    /\ Len(hout) = 4

\* C9: a run whose launch succeeds keeps a fixed order.  The fixture is written
\* before the child is launched; one scripted line, "2" and a newline, is written to
\* the child's input and then the input is closed; the exit status is reported only
\* once the child has exited and all its output is captured; the report prints the
\* command line, then the captured output, then a separator, then the exit status.
\* Nothing times out: while the child has not exited the report is not reached.
C9_HarnessOrder ==
    /\ child.st \in {"running", "hung", "exited"} =>
          /\ fixture = agent_content
          /\ Places(CreatedLine) = {1}
    /\ childIn.writes \in { <<>>, <<ScriptedInput>> }
    /\ childIn.closed => childIn.writes = <<ScriptedInput>>
    /\ (childIn.writes # <<>>) => child.st \in {"running", "hung", "exited"}
    /\ (hpc = "report" \/ ExitReported) =>
          /\ child.st = "exited"
          /\ pipe = <<>>
          /\ captured = emitted
          /\ childIn = [writes |-> <<ScriptedInput>>, closed |-> TRUE]
    /\ ExitReported =>
          /\ hpc = "done"
          /\ hexit = 0
          /\ \E i, j, k, l \in 1..Len(hout) :
                /\ i < j /\ j < k /\ k < l
                /\ hout[i] = RunningLine
                /\ hout[j] = captured
                /\ hout[k] = Separator
                /\ hout[l] = ExitLine(child.code)
                /\ l = Len(hout)
    /\ child.st \in {"running", "hung"} => hpc = "communicate"

\* C9 witness: the child wrote two chunks and exited with status 2, and the report
\* is printed
C9_Witness ==
    /\ hpc = "done"
    /\ child.st = "exited" /\ child.code = 2
    /\ Len(captured) = 2
    /\ hout[Len(hout)] = ExitLine(2)

====
